---- MODULE Spec2Model ----
(***************************************************************************)
(* Verification model of redactify: the detection and redaction pipeline   *)
(* of redactify.py (command line) and app.py (web upload).                 *)
(*                                                                         *)
(* Strings are sequences of one-character strings.  Python values that     *)
(* come out of json.loads are tagged records, because the code applies     *)
(* len() and indexing to whatever the AI backend's array holds.            *)
(***************************************************************************)
EXTENDS Integers, Sequences, FiniteSets, TLC

\* ------------------------------------------------------------------------
\* Python values
\* ------------------------------------------------------------------------

Str(s) == [t |-> "str", v |-> s]
Num(n) == [t |-> "num", v |-> n]
Arr(xs) == [t |-> "arr", v |-> xs]

\* Python's == on two values: values of different types are never equal
PyEq(x, y) == x.t = y.t /\ x.v = y.v

\* a match dict {'text': ..., 'start': ..., 'end': ...}
Match(text, start, end) == [text |-> text, start |-> start, end |-> end]

RECURSIVE Concat(_)
Concat(ss) == IF ss = <<>> THEN <<>> ELSE Head(ss) \o Concat(Tail(ss))

\* ------------------------------------------------------------------------
\* Regular expressions (module re), for the fragment the patterns use:
\* ordinary characters, "." (any character) and backslash escapes.
\* ------------------------------------------------------------------------

\* the characters of the alphabet that re.escape prefixes with a backslash
SpecialChars == {".", "\\"}

\* re.escape(s)
RECURSIVE re_escape(_)
re_escape(s) ==
    IF s = <<>> THEN <<>>
    ELSE (IF Head(s) \in SpecialChars THEN <<"\\", Head(s)>> ELSE <<Head(s)>>)
         \o re_escape(Tail(s))

\* re.compile: the pattern as a sequence of one-character matchers, or an
\* error (re.error: a backslash at the end, or a backslash before a letter
\* that is no known escape)
RECURSIVE re_compile(_)
re_compile(p) ==
    IF p = <<>> THEN [ok |-> TRUE, toks |-> <<>>]
    ELSE IF Head(p) = "\\"
         THEN IF Len(p) = 1 \/ p[2] \notin SpecialChars
              THEN [ok |-> FALSE, toks |-> <<>>]
              ELSE LET r == re_compile(SubSeq(p, 3, Len(p)))
                   IN  [ok |-> r.ok, toks |-> <<[any |-> FALSE, c |-> p[2]]>> \o r.toks]
         ELSE LET r == re_compile(Tail(p))
              IN  [ok |-> r.ok,
                   toks |-> <<[any |-> (Head(p) = "."), c |-> Head(p)]>> \o r.toks]

\* whether the compiled pattern matches text at 1-based position pos
MatchesAt(toks, text, pos) ==
    /\ pos + Len(toks) - 1 <= Len(text)
    /\ \A k \in 1..Len(toks) : toks[k].any \/ toks[k].c = text[pos + k - 1]

\* re.finditer(pattern, text): the non-overlapping matches, left to right;
\* an empty pattern matches the empty string at every position
RECURSIVE FindIterFrom(_, _, _)
FindIterFrom(toks, text, pos) ==
    IF pos > Len(text) + 1 THEN <<>>
    ELSE IF MatchesAt(toks, text, pos)
         THEN <<Match(Str(SubSeq(text, pos, pos + Len(toks) - 1)),
                      Num(pos - 1), Num(pos - 1 + Len(toks)))>>
              \o FindIterFrom(toks, text, IF Len(toks) = 0 THEN pos + 1 ELSE pos + Len(toks))
         ELSE FindIterFrom(toks, text, pos + 1)

finditer(toks, text) == FindIterFrom(toks, text, 1)

\* ------------------------------------------------------------------------
\* The AI backend's answer and its parsing (AIAddressMatcher)
\* ------------------------------------------------------------------------

\* An answer is a sequence of tokens: "[" "]" "," a string literal, a number,
\* or a word of commentary ("w"), which is no JSON.
Tok(k, s, n) == [k |-> k, s |-> s, n |-> n]
LB == Tok("[", <<>>, 0)
RB == Tok("]", <<>>, 0)
CM == Tok(",", <<>>, 0)
W == Tok("w", <<>>, 0)
TS(s) == Tok("str", s, 0)
TN(n) == Tok("num", <<>>, n)

ParseFail == [ok |-> FALSE, val |-> Arr(<<>>), next |-> 0]

\* json.loads on a token sequence: one value, and nothing after it
RECURSIVE ParseValue(_, _), ParseElems(_, _, _)
ParseValue(toks, i) ==
    IF i > Len(toks) THEN ParseFail
    ELSE CASE toks[i].k = "str" -> [ok |-> TRUE, val |-> Str(toks[i].s), next |-> i + 1]
           [] toks[i].k = "num" -> [ok |-> TRUE, val |-> Num(toks[i].n), next |-> i + 1]
           [] toks[i].k = "[" ->
                IF i + 1 <= Len(toks) /\ toks[i + 1].k = "]"
                THEN [ok |-> TRUE, val |-> Arr(<<>>), next |-> i + 2]
                ELSE ParseElems(toks, i + 1, <<>>)
           [] OTHER -> ParseFail

ParseElems(toks, i, acc) ==
    LET r == ParseValue(toks, i)
    IN  IF ~r.ok \/ r.next > Len(toks) THEN ParseFail
        ELSE CASE toks[r.next].k = "," -> ParseElems(toks, r.next + 1, Append(acc, r.val))
               [] toks[r.next].k = "]" ->
                    [ok |-> TRUE, val |-> Arr(Append(acc, r.val)), next |-> r.next + 1]
               [] OTHER -> ParseFail

json_loads(toks) ==
    LET r == ParseValue(toks, 1)
    IN  IF r.ok /\ r.next = Len(toks) + 1 THEN r ELSE ParseFail

\* str.find('[') and str.rfind(']'), 0-based, -1 when absent
find_lb(toks) ==
    IF \E i \in 1..Len(toks) : toks[i].k = "["
    THEN (CHOOSE i \in 1..Len(toks) :
             toks[i].k = "[" /\ \A j \in 1..(i - 1) : toks[j].k # "[") - 1
    ELSE -1

rfind_rb(toks) ==
    IF \E i \in 1..Len(toks) : toks[i].k = "]"
    THEN (CHOOSE i \in 1..Len(toks) :
             toks[i].k = "]" /\ \A j \in (i + 1)..Len(toks) : toks[j].k # "]") - 1
    ELSE -1

\* len(match) of one element of the parsed array; a number has no len()
HasLen(x) == x.t \in {"str", "arr"}
PyLen(x) == Len(x.v)

\* match[i] (0-based): an element of a list, or a one-character string
PyIndex(x, i) == IF x.t = "str" THEN Str(<<x.v[i + 1]>>) ELSE x.v[i + 1]

\* the loop of lines 86-92 over the parsed array: raises (TypeError) at the
\* first element that has no len()
RECURSIVE CollectAddresses(_, _)
CollectAddresses(matches, acc) ==
    IF matches = <<>> THEN [raised |-> FALSE, val |-> acc]
    ELSE LET m == Head(matches)
         IN  IF ~HasLen(m) THEN [raised |-> TRUE, val |-> <<>>]
             ELSE CollectAddresses(Tail(matches),
                      IF PyLen(m) >= 3
                      THEN Append(acc, Match(PyIndex(m, 0), PyIndex(m, 1), PyIndex(m, 2)))
                      ELSE acc)

\* lines 76-103: what find_similar_patterns returns for a backend outcome.
\* outcome.kind is "exception" (transport, provider, timeout) or "text".
ParseResponse(outcome) ==
    IF outcome.kind = "exception" THEN <<>>
    ELSE LET toks == outcome.toks
             start_idx == find_lb(toks)
             end_idx == rfind_rb(toks) + 1
         IN  IF start_idx # -1 /\ end_idx > start_idx
             THEN LET parsed == json_loads(SubSeq(toks, start_idx + 1, end_idx))
                  IN  IF ~parsed.ok THEN <<>>
                      ELSE LET r == CollectAddresses(parsed.val.v, <<>>)
                           IN  IF r.raised THEN <<>> ELSE r.val
             ELSE <<>>

\* line 37: whether find_similar_patterns goes on to call the backend
BackendCalled(ai_enabled, target_patterns) == ai_enabled /\ target_patterns # <<>>

find_similar_patterns(ai_enabled, target_patterns, outcome) ==
    IF BackendCalled(ai_enabled, target_patterns) THEN ParseResponse(outcome) ELSE <<>>

\* ------------------------------------------------------------------------
\* Match reconciliation (detect_addresses, and its copy in process_pdf_in_memory)
\* ------------------------------------------------------------------------

\* any(addr['text'] == new_addr['text'] for addr in addresses)
HasText(addresses, text) == \E i \in 1..Len(addresses) : PyEq(addresses[i].text, text)

\* faulty variant: the inner loop comparing text and start, not the text alone
RECURSIVE AddMatches_ByTextAndStart(_, _)
AddMatches_ByTextAndStart(matches, addresses) ==
    IF matches = <<>> THEN addresses
    ELSE AddMatches_ByTextAndStart(Tail(matches),
            IF \E i \in 1..Len(addresses) :
                   /\ PyEq(addresses[i].text, Head(matches).text)
                   /\ PyEq(addresses[i].start, Head(matches).start)
            THEN addresses
            ELSE Append(addresses, Head(matches)))

\* the inner loop: each match of one pattern is appended unless its text is there
RECURSIVE AddMatches(_, _)
AddMatches(matches, addresses) ==
    IF matches = <<>> THEN addresses
    ELSE AddMatches(Tail(matches),
                    IF HasText(addresses, Head(matches).text) THEN addresses
                    ELSE Append(addresses, Head(matches)))

\* the outer loop over the patterns; re.finditer raises re.error on a pattern
\* that does not compile
RECURSIVE RegexLoop(_, _, _)
RegexLoop(pattern_list, text, addresses) ==
    IF pattern_list = <<>> THEN [raised |-> FALSE, val |-> addresses]
    ELSE LET c == re_compile(Head(pattern_list))
         IN  IF ~c.ok THEN [raised |-> TRUE, val |-> <<>>]
             ELSE RegexLoop(Tail(pattern_list), text,
                            AddMatches(finditer(c.toks, text), addresses))

\* addresses.extend(ai_addresses), then the regex loop
detect_addresses(text, ai_addresses, pattern_list) ==
    RegexLoop(pattern_list, text, ai_addresses)

\* app.py escapes every form pattern before it is used as a regex
EscapeAll(ps) == [i \in 1..Len(ps) |-> re_escape(ps[i])]

\* ------------------------------------------------------------------------
\* Configuration (AIAddressMatcher.__init__, PDFRedactor.__init__, load_config)
\* ------------------------------------------------------------------------

\* A field of the JSON payload: absent, a list of strings, or malformed
\* ("bad": a value the code cannot iterate or escape).
Absent == [k |-> "absent", v |-> <<>>]
Bad == [k |-> "bad", v |-> <<>>]
List(v) == [k |-> "list", v |-> v]

NoMatcher == [exists |-> FALSE, ai_enabled |-> FALSE]

\* faulty variant: a matcher that stays enabled without a key
AIAddressMatcher_KeepsEnabled(ai_config, environ) ==
    [exists |-> TRUE, ai_enabled |-> ai_config.enabled]

\* faulty variant: a matcher that is enabled whenever a key is found
AIAddressMatcher_EnabledByKey(ai_config, environ) ==
    [exists |-> TRUE,
     ai_enabled |-> ai_config.api_key \/ environ.anthropic_key \/ environ.openai_key]

\* AIAddressMatcher.__init__: the key comes from the config or the environment;
\* an enabled matcher without a key disables itself
AIAddressMatcher(ai_config, environ) ==
    LET api_key == ai_config.api_key \/ environ.anthropic_key \/ environ.openai_key
    IN  [exists |-> TRUE, ai_enabled |-> ai_config.enabled /\ api_key]

\* the four structured fields, in the order load_config reads them
StructuredFields(legacy_config) ==
    <<legacy_config.postal_codes, legacy_config.prefectures,
      legacy_config.cities, legacy_config.addresses>>

\* faulty variant: the structured values are appended as they are
RECURSIVE EscapeFields_Raw(_, _)
EscapeFields_Raw(fields, patterns) ==
    IF fields = <<>> THEN [raised |-> FALSE, val |-> patterns]
    ELSE LET f == Head(fields)
         IN  IF f.k = "bad" THEN [raised |-> TRUE, val |-> <<>>]
             ELSE EscapeFields_Raw(Tail(fields),
                                   IF f.k = "list" THEN patterns \o f.v ELSE patterns)

\* lines 144-162: each present field's values are escaped and appended; a
\* malformed field raises
RECURSIVE EscapeFields(_, _)
EscapeFields(fields, patterns) ==
    IF fields = <<>> THEN [raised |-> FALSE, val |-> patterns]
    ELSE LET f == Head(fields)
         IN  IF f.k = "bad" THEN [raised |-> TRUE, val |-> <<>>]
             ELSE EscapeFields(Tail(fields),
                               IF f.k = "list" THEN patterns \o EscapeAll(f.v) ELSE patterns)

\* load_config: the redactor's fields after the call.  Any exception ends the
\* call with a warning; what was assigned before it stays assigned.
load_config(self, config, environ) ==
    IF ~config.parse_ok THEN self
    ELSE IF config.folders = "bad" THEN self
    ELSE IF config.ai_api.k = "bad" THEN self
    ELSE
      LET s1 == IF config.ai_api.k = "ok"
                THEN [self EXCEPT !.ai_matcher = AIAddressMatcher(config.ai_api, environ)]
                ELSE self
          s2 == IF config.target_patterns.k = "list"
                THEN [s1 EXCEPT !.target_patterns = config.target_patterns.v]
                ELSE s1
          legacy_config == IF config.legacy_patterns.present
                           THEN config.legacy_patterns.fields ELSE config.root
          esc == EscapeFields(StructuredFields(legacy_config), <<>>)
      IN  IF esc.raised \/ legacy_config.custom_patterns.k = "bad" THEN s2
          ELSE LET patterns == esc.val \o legacy_config.custom_patterns.v
               IN  IF patterns # <<>> THEN [s2 EXCEPT !.address_patterns = patterns]
                   ELSE s2

\* lines 107-109: the fields before the configuration is loaded
NewRedactor ==
    [address_patterns |-> <<>>, target_patterns |-> <<>>, ai_matcher |-> NoMatcher]

\* faulty variant: the constructor checking the target patterns alone
PDFRedactor_TargetOnly(config, environ) ==
    LET self == IF config.exists THEN load_config(NewRedactor, config, environ)
                ELSE NewRedactor
    IN  [raised |-> self.target_patterns = <<>>, self |-> self]

\* PDFRedactor.__init__: the fields, and whether the constructor raised
PDFRedactor(config, environ) ==
    LET self == IF config.exists THEN load_config(NewRedactor, config, environ)
                ELSE NewRedactor
    IN  [raised |-> self.target_patterns = <<>> /\ self.address_patterns = <<>>,
         self |-> self]

\* ------------------------------------------------------------------------
\* The page's text layer, the locator and the redaction marks (PyMuPDF, as
\* the code calls it)
\* ------------------------------------------------------------------------

\* fitz.Rect
Rect(x0, y0, x1, y1) == [x0 |-> x0, y0 |-> y0, x1 |-> x1, y1 |-> y1]

\* A page's text layer is one line of glyphs, each 10 points wide and high;
\* a glyph that a redaction removed leaves its place empty.
NewLayer(text) == [glyphs |-> text, removed |-> {}]
GlyphBox(i) == Rect(10 * (i - 1), 0, 10 * i, 10)
RunBox(i, n) == Rect(10 * (i - 1), 0, 10 * (i - 1 + n), 10)

\* page.get_text()
get_text(layer) == layer.glyphs

OccursAt(layer, s, i) ==
    /\ i + Len(s) - 1 <= Len(layer.glyphs)
    /\ \A k \in 1..Len(s) :
          /\ (i + k - 1) \notin layer.removed
          /\ layer.glyphs[i + k - 1] = s[k]

\* page.search_for(needle): one rectangle per occurrence, in reading order.
\* Whether occurrences that overlap each other are all reported is the
\* library's choice (overlapping).
RECURSIVE SearchFrom(_, _, _, _)
SearchFrom(layer, s, i, overlapping) ==
    IF i > Len(layer.glyphs) THEN <<>>
    ELSE IF OccursAt(layer, s, i)
         THEN <<RunBox(i, Len(s))>>
              \o SearchFrom(layer, s, IF overlapping THEN i + 1 ELSE i + Len(s), overlapping)
         ELSE SearchFrom(layer, s, i + 1, overlapping)

search_for(layer, needle, overlapping) ==
    IF needle = <<>> THEN <<>> ELSE SearchFrom(layer, needle, 1, overlapping)

\* the margins the code adds around a located rectangle
Margin == 1
RasterMargin == 2
Dpi == 300
PointsPerInch == 72

\* lines 278-283: the located rectangle widened by one point on each side
AdjustedRect(inst) ==
    Rect(inst.x0 - Margin, inst.y0 - Margin, inst.x1 + Margin, inst.y1 + Margin)

\* lines 236-243: the rectangle in pixels (int() truncates), widened by two
ScaledBox(inst, dpi) ==
    Rect(((inst.x0 * dpi) \div PointsPerInch) - RasterMargin,
         ((inst.y0 * dpi) \div PointsPerInch) - RasterMargin,
         ((inst.x1 * dpi) \div PointsPerInch) + RasterMargin,
         ((inst.y1 * dpi) \div PointsPerInch) + RasterMargin)

\* whether a redaction mark takes a glyph with it: a glyph inside the mark
\* always goes; one the mark only touches goes when the library removes on
\* any overlap (touching)
Hit(g, a, touching) ==
    IF touching
    THEN g.x0 < a.x1 /\ a.x0 < g.x1 /\ g.y0 < a.y1 /\ a.y0 < g.y1
    ELSE a.x0 <= g.x0 /\ g.x1 <= a.x1 /\ a.y0 <= g.y0 /\ g.y1 <= a.y1

\* page.apply_redactions(): every glyph under a mark leaves the text layer
apply_redactions(layer, annots, touching) ==
    [layer EXCEPT !.removed =
        @ \cup {i \in 1..Len(layer.glyphs) :
                   \E k \in 1..Len(annots) : Hit(GlyphBox(i), annots[k], touching)}]

\* the state the loops of a page carry: the page's text layer, the marks (or
\* painted boxes), the count, the calls made so far, and whether a call raised
NewPageRun(layer) ==
    [layer |-> layer, annots |-> <<>>, count |-> 0, log |-> <<>>, raised |-> FALSE]

\* faulty variant: only the first located rectangle is marked
MarkInstances_FirstOnly(text_instances, run) ==
    IF text_instances = <<>> THEN run
    ELSE [run EXCEPT !.annots = Append(@, AdjustedRect(Head(text_instances))),
                     !.log = Append(@, "add_redact_annot"),
                     !.count = @ + 1]

\* faulty variant: every located rectangle is marked, but a match counts once
RECURSIVE MarkInstances_CountPerMatch(_, _)
MarkInstances_CountPerMatch(text_instances, run) ==
    IF text_instances = <<>> THEN run
    ELSE MarkInstances_CountPerMatch(Tail(text_instances),
            [run EXCEPT !.annots = Append(@, AdjustedRect(Head(text_instances))),
                        !.log = Append(@, "add_redact_annot"),
                        !.count = IF Tail(text_instances) = <<>> THEN @ + 1 ELSE @])

\* lines 276-287: one mark per located rectangle, each counted
RECURSIVE MarkInstances(_, _)
MarkInstances(text_instances, run) ==
    IF text_instances = <<>> THEN run
    ELSE MarkInstances(Tail(text_instances),
            [run EXCEPT !.annots = Append(@, AdjustedRect(Head(text_instances))),
                        !.log = Append(@, "add_redact_annot"),
                        !.count = @ + 1])

\* lines 273-287: every match is searched on the page; search_for raises
\* (TypeError) on a text that is no string
RECURSIVE LocateLoop(_, _, _)
LocateLoop(addresses, run, overlapping) ==
    IF addresses = <<>> THEN run
    ELSE LET addr == Head(addresses)
         IN  IF addr.text.t # "str"
             THEN [run EXCEPT !.raised = TRUE]
             ELSE LocateLoop(Tail(addresses),
                      MarkInstances(search_for(run.layer, addr.text.v, overlapping),
                                    [run EXCEPT !.log = Append(@, "search_for")]),
                      overlapping)

\* faulty variant: the marks of each match are committed before the next search
RECURSIVE LocateCommitLoop(_, _, _)
LocateCommitLoop(addresses, run, lib) ==
    IF addresses = <<>> THEN run
    ELSE LET addr == Head(addresses)
         IN  IF addr.text.t # "str"
             THEN [run EXCEPT !.raised = TRUE]
             ELSE LET marked ==
                          MarkInstances(search_for(run.layer, addr.text.v, lib.overlapping),
                                        [run EXCEPT !.log = Append(@, "search_for")])
                  IN  LocateCommitLoop(Tail(addresses),
                          [marked EXCEPT
                              !.log = Append(@, "apply_redactions"),
                              !.layer = apply_redactions(marked.layer, marked.annots,
                                                         lib.touching)],
                          lib)

RedactPage_CommitPerMatch(layer, addresses, lib) ==
    LocateCommitLoop(addresses, NewPageRun(layer), lib)

\* lines 273-290 (redact_pdf) and 211-224 (process_pdf_in_memory): collect
\* the marks of every match, then commit them once
RedactPage(layer, addresses, lib) ==
    LET run == LocateLoop(addresses, NewPageRun(layer), lib.overlapping)
    IN  IF run.raised THEN run
        ELSE [run EXCEPT !.log = Append(@, "apply_redactions"),
                         !.layer = apply_redactions(run.layer, run.annots, lib.touching)]

\* lines 234-244: one painted box per located rectangle, each counted
RECURSIVE DrawInstances(_, _, _)
DrawInstances(text_instances, run, dpi) ==
    IF text_instances = <<>> THEN run
    ELSE DrawInstances(Tail(text_instances),
            [run EXCEPT !.annots = Append(@, ScaledBox(Head(text_instances), dpi)),
                        !.log = Append(@, "rectangle"),
                        !.count = @ + 1],
            dpi)

\* lines 231-244 (redact_to_image): the page itself is never changed
RECURSIVE DrawLoop(_, _, _, _)
DrawLoop(addresses, run, dpi, overlapping) ==
    IF addresses = <<>> THEN run
    ELSE LET addr == Head(addresses)
         IN  IF addr.text.t # "str"
             THEN [run EXCEPT !.raised = TRUE]
             ELSE DrawLoop(Tail(addresses),
                      DrawInstances(search_for(run.layer, addr.text.v, overlapping),
                                    [run EXCEPT !.log = Append(@, "search_for")], dpi),
                      dpi, overlapping)

RasterPage(layer, addresses, lib) ==
    DrawLoop(addresses, NewPageRun(layer), Dpi, lib.overlapping)

\* ------------------------------------------------------------------------
\* Inputs: configuration payloads, environments, forms, pages, AI answers
\* ------------------------------------------------------------------------

MaxDocs == 2
MaxPages == 2

Fields(postal_codes, prefectures, cities, addresses, custom_patterns) ==
    [postal_codes |-> postal_codes, prefectures |-> prefectures, cities |-> cities,
     addresses |-> addresses, custom_patterns |-> custom_patterns]
NoFields == Fields(Absent, Absent, Absent, Absent, Absent)

AiApi(k, enabled, api_key, provider) ==
    [k |-> k, enabled |-> enabled, api_key |-> api_key, provider |-> provider]
NoAi == AiApi("absent", FALSE, FALSE, "unset")

Config(exists, parse_ok, folders, ai_api, target, legacy_present, legacy, root) ==
    [exists |-> exists, parse_ok |-> parse_ok, folders |-> folders, ai_api |-> ai_api,
     target_patterns |-> target,
     legacy_patterns |-> [present |-> legacy_present, fields |-> legacy],
     root |-> root]

Environ(anthropic_key, openai_key, ai_enabled, ai_provider) ==
    [anthropic_key |-> anthropic_key, openai_key |-> openai_key,
     ai_enabled |-> ai_enabled, ai_provider |-> ai_provider]

NoEnv == Environ(FALSE, FALSE, "unset", "unset")

P == <<"p">>
PQ == <<"p", "q">>
PDot == <<"p", ".">>

\* the configuration files of the command line runs
CliConfigs ==
    { Config(FALSE, TRUE, "absent", NoAi, Absent, FALSE, NoFields, NoFields),
      Config(TRUE, FALSE, "absent", NoAi, List(<<P>>), FALSE, NoFields,
             Fields(List(<<P>>), Absent, Absent, Absent, Absent)),
      Config(TRUE, TRUE, "absent", NoAi, Absent, FALSE, NoFields, NoFields),
      Config(TRUE, TRUE, "ok", NoAi, Absent, FALSE, NoFields,
             Fields(List(<<P>>), List(<<PDot>>), Absent, Absent, Absent)),
      Config(TRUE, TRUE, "absent", AiApi("ok", TRUE, TRUE, "anthropic"), List(<<P>>),
             FALSE, NoFields, NoFields),
      Config(TRUE, TRUE, "absent", AiApi("ok", TRUE, FALSE, "anthropic"), List(<<PQ>>),
             TRUE, Fields(Absent, Absent, Absent, List(<<PQ, P>>), List(<<PDot>>)),
             Fields(List(<<<<"q">>>>), Absent, Absent, Absent, Absent)),
      Config(TRUE, TRUE, "absent", AiApi("ok", FALSE, TRUE, "openai"), List(<<PQ>>),
             FALSE, NoFields, Fields(Absent, Absent, List(<<P, P>>), Absent, Absent)),
      Config(TRUE, TRUE, "absent", NoAi, Absent, FALSE, NoFields,
             Fields(List(<<P>>), Absent, Bad, Absent, Absent)),
      Config(TRUE, TRUE, "absent", AiApi("ok", TRUE, TRUE, "anthropic"), List(<<P>>),
             FALSE, NoFields, Fields(List(<<PQ>>), Absent, Absent, Absent, Bad)),
      Config(TRUE, TRUE, "absent", NoAi, Absent, FALSE, NoFields,
             Fields(Absent, Absent, Absent, Absent, List(<<<<"\\">>>>))) }

CliEnvirons == {NoEnv, Environ(FALSE, TRUE, "unset", "unset")}

\* ./config.json as the web handler reads it (only its ai_api part)
WebConfigs ==
    { Config(FALSE, TRUE, "absent", NoAi, Absent, FALSE, NoFields, NoFields),
      Config(TRUE, TRUE, "absent", AiApi("ok", TRUE, TRUE, "anthropic"), Absent,
             FALSE, NoFields, NoFields),
      Config(TRUE, TRUE, "absent", AiApi("ok", TRUE, FALSE, "openai"), Absent,
             FALSE, NoFields, NoFields),
      Config(TRUE, TRUE, "absent", AiApi("bad", FALSE, FALSE, "unset"), Absent,
             FALSE, NoFields, NoFields) }

WebEnvirons ==
    {NoEnv, Environ(TRUE, FALSE, "true", "unset"), Environ(FALSE, FALSE, "false", "openai")}

\* the form's target_patterns value, as its lines
Forms ==
    { <<>>, << <<" ">>, <<>> >>, << <<" ", "p">> >>, << <<"p", "q">>, <<>>, <<"p", ".", " ">> >> }

\* the text a page's text layer holds
PageTexts == { <<"p", "q", "p">>, <<"q", "q">>, <<"p", ".", "q">>, <<"p", "p", "p">> }

Answer(toks) == [kind |-> "text", toks |-> toks]
Failure == [kind |-> "exception", toks |-> <<>>]

Entry(s, a, b) == <<LB, TS(s), CM, TN(a), CM, TN(b), RB>>

\* what the AI backend may answer
Outcomes ==
    { Failure,
      Answer(<<W>>),
      Answer(<<LB, W, RB>>),
      Answer(<<W, LB>> \o Entry(P, 0, 1) \o <<RB, W>>),
      Answer(<<LB>> \o Entry(PQ, 0, 2) \o <<CM>> \o Entry(PQ, 5, 7) \o <<RB>>),
      Answer(<<LB, TS(<<"p", "q", "p">>), RB>>),
      Answer(<<LB, LB, TN(1), CM, TN(2), CM, TN(3), RB, RB>>) }

\* the two library behaviours the code cannot tell apart: whether search_for
\* reports occurrences that overlap each other, and whether a mark takes the
\* glyphs it only touches
Libs == {[overlapping |-> FALSE, touching |-> FALSE], [overlapping |-> TRUE, touching |-> TRUE]}

\* the page texts of the batch runs
BatchTexts == { <<"p", "q", "p">>, <<"q", "q">> }

\* ------------------------------------------------------------------------
\* State
\* ------------------------------------------------------------------------

VARIABLES
    mode,              \* "cli" (redactify.py main, batch run) or "web" (app.py upload)
    image,             \* the --image flag
    config,            \* the configuration file
    environ,           \* the process environment
    form,              \* the upload form's target_patterns lines
    pdf_files,         \* how many documents the batch holds
    corpus,            \* the texts the pages of these documents may hold
    pc,                \* where the run stands
    target_patterns,   \* PDFRedactor.target_patterns
    address_patterns,  \* PDFRedactor.address_patterns
    ai_matcher,        \* the AIAddressMatcher, if any
    patterns,          \* upload_files' patterns
    file_idx,          \* documents started so far
    n_pages,           \* len(doc) of the open document
    page_num,          \* pages of the open document done so far
    page,              \* the page processed last
    commits,           \* the pages of the open document committed so far, in order
    redacted_count,    \* the open document's count
    processed_files,   \* one entry per finished document
    total_redacted,    \* the batch's count
    fin,               \* the argument of a function checked on its own
    fout,              \* and its result
    memory_store,      \* app.py's memory_store: session id -> stored archive
    requests           \* the download, cleanup and upload requests in flight

inputs == <<mode, image, config, environ, form, pdf_files, corpus>>
redactor == <<target_patterns, address_patterns, ai_matcher, patterns>>
docvars == <<n_pages, page_num, page, commits, redacted_count>>
batch == <<file_idx, processed_files, total_redacted>>
fvars == <<fin, fout>>
sessions == <<memory_store, requests>>
vars == <<inputs, pc, redactor, docvars, batch, fvars, sessions>>

NoOutcome == Answer(<<>>)
NoPage ==
    [num |-> -1, text |-> <<>>, lib |-> [overlapping |-> FALSE, touching |-> FALSE],
     ai_calls |-> 0, outcome |-> NoOutcome,
     ai_addresses |-> <<>>, addresses |-> <<>>, run |-> NewPageRun(NewLayer(<<>>))]
None == [k |-> "none"]

RedactorIdle ==
    /\ target_patterns = <<>>
    /\ address_patterns = <<>>
    /\ ai_matcher = NoMatcher
    /\ patterns = <<>>

DocIdle ==
    /\ n_pages = 0
    /\ page_num = 0
    /\ page = NoPage
    /\ commits = <<>>
    /\ redacted_count = 0

BatchIdle ==
    /\ file_idx = 0
    /\ processed_files = <<>>
    /\ total_redacted = 0

\* line 48: memory_store = {} and no request under way
SessionsIdle ==
    /\ memory_store = <<>>
    /\ requests = <<>>

Init ==
    /\ \/ /\ mode = "cli"
          /\ image \in BOOLEAN
          /\ config \in CliConfigs
          /\ environ \in CliEnvirons
          /\ form = <<>>
       \/ /\ mode = "web"
          /\ image = FALSE
          /\ config \in WebConfigs
          /\ environ \in WebEnvirons
          /\ form \in Forms
    /\ pdf_files \in {0, 1}
    /\ corpus = PageTexts
    /\ pc = "start"
    /\ RedactorIdle
    /\ DocIdle
    /\ BatchIdle
    /\ SessionsIdle
    /\ fin = None
    /\ fout = None

\* ------------------------------------------------------------------------
\* Start of a run
\* ------------------------------------------------------------------------

\* main, lines 338-350: the redactor is constructed first; a ValueError ends
\* the run, and so does an empty input folder
Construct ==
    /\ pc = "start"
    /\ mode = "cli"
    /\ LET r == PDFRedactor(config, environ)
       IN  IF r.raised
           THEN /\ pc' = "config_error"
                /\ UNCHANGED redactor
           ELSE /\ target_patterns' = r.self.target_patterns
                /\ address_patterns' = r.self.address_patterns
                /\ ai_matcher' = r.self.ai_matcher
                /\ patterns' = patterns
                /\ pc' = IF pdf_files = 0 THEN "no_files" ELSE "loop"
    /\ UNCHANGED <<sessions, inputs, docvars, batch, fvars>>

\* str.strip() of one line
RECURSIVE LStrip(_)
LStrip(s) == IF s # <<>> /\ Head(s) = " " THEN LStrip(Tail(s)) ELSE s
RECURSIVE RStrip(_)
RStrip(s) == IF s # <<>> /\ s[Len(s)] = " " THEN RStrip(SubSeq(s, 1, Len(s) - 1)) ELSE s
Strip(s) == RStrip(LStrip(s))

\* line 65: the stripped lines that are not blank
RECURSIVE NonBlankLines(_)
NonBlankLines(lines) ==
    IF lines = <<>> THEN <<>>
    ELSE (IF Strip(Head(lines)) # <<>> THEN <<Strip(Head(lines))>> ELSE <<>>)
         \o NonBlankLines(Tail(lines))

\* lines 81-85
get_bool_setting(env_value, default) ==
    IF env_value # "unset" THEN env_value = "true" ELSE default

\* lines 87-113: the AI settings, the environment first, config.json second
WebAiConfig(cfg, env) ==
    LET config_ai_settings == IF cfg.exists /\ cfg.parse_ok THEN cfg.ai_api ELSE NoAi
        provider == IF env.ai_provider # "unset" THEN env.ai_provider
                    ELSE IF config_ai_settings.provider # "unset"
                         THEN config_ai_settings.provider ELSE "anthropic"
        enabled == get_bool_setting(env.ai_enabled, config_ai_settings.enabled)
        api_key == IF provider = "openai"
                   THEN env.openai_key \/ config_ai_settings.api_key
                   ELSE env.anthropic_key \/ config_ai_settings.api_key
    IN  [raised |-> config_ai_settings.k = "bad",
         enabled |-> enabled, api_key |-> api_key, provider |-> provider]

\* upload_files, lines 59-117: an empty pattern form or an upload without a
\* PDF is refused (400) before anything is read
UploadValidate ==
    /\ pc = "start"
    /\ mode = "web"
    /\ LET ai_config == WebAiConfig(config, environ)
       IN  IF NonBlankLines(form) = <<>> \/ pdf_files = 0
           THEN /\ pc' = "rejected"
                /\ UNCHANGED redactor
           ELSE IF ai_config.raised
           THEN /\ pc' = "server_error"
                /\ UNCHANGED redactor
           ELSE /\ patterns' = NonBlankLines(form)
                /\ ai_matcher' = IF ai_config.enabled
                                 THEN AIAddressMatcher(ai_config, environ)
                                 ELSE NoMatcher
                /\ pc' = "loop"
                /\ UNCHANGED <<target_patterns, address_patterns>>
    /\ UNCHANGED <<sessions, inputs, docvars, batch, fvars>>

\* ------------------------------------------------------------------------
\* One document
\* ------------------------------------------------------------------------

\* the regex detector's patterns: address_patterns as load_config left them,
\* or (web) the form's patterns, each escaped
RegexPatterns == IF mode = "web" THEN EscapeAll(patterns) ELSE address_patterns

\* the patterns handed to the fuzzy detector
FuzzyTargets == IF mode = "web" THEN patterns ELSE target_patterns

\* redactify.py line 180 / app.py line 192: whether find_similar_patterns is
\* entered for a page
FuzzyEntered ==
    IF mode = "web" THEN ai_matcher.exists /\ ai_matcher.ai_enabled
    ELSE ai_matcher.exists /\ ai_matcher.ai_enabled /\ target_patterns # <<>>

\* whether the backend is called for a page
WillCall == FuzzyEntered /\ BackendCalled(ai_matcher.ai_enabled, FuzzyTargets)

\* detection on one page: the fuzzy matches first, then the regex loop
PageDetect(text, outcome) ==
    LET ai_addresses ==
            IF FuzzyEntered
            THEN find_similar_patterns(ai_matcher.ai_enabled, FuzzyTargets, outcome)
            ELSE <<>>
        det == detect_addresses(text, ai_addresses, RegexPatterns)
    IN  [raised |-> det.raised, addresses |-> det.val, ai_addresses |-> ai_addresses,
         ai_calls |-> IF WillCall THEN 1 ELSE 0]

PageRecord(num, text, outcome, lib, d, run) ==
    [num |-> num, text |-> text, lib |-> lib, ai_calls |-> d.ai_calls, outcome |-> outcome,
     ai_addresses |-> d.ai_addresses, addresses |-> d.addresses, run |-> run]

\* how often a page's run committed
RECURSIVE Applies(_)
Applies(log) ==
    IF log = <<>> THEN 0
    ELSE (IF Head(log) = "apply_redactions" THEN 1 ELSE 0) + Applies(Tail(log))

ErrorEntry(i) == [original |-> i, ok |-> FALSE, count |-> 0]
DoneEntry(i, count) == [original |-> i, ok |-> TRUE, count |-> count]

\* faulty variant: a failing document ends the batch
DocError_Abort ==
    /\ processed_files' = Append(processed_files, ErrorEntry(file_idx + 1))
    /\ file_idx' = file_idx + 1
    /\ pc' = "done"
    /\ n_pages' = 0
    /\ page_num' = 0
    /\ page' = NoPage
    /\ commits' = <<>>
    /\ redacted_count' = 0
    /\ UNCHANGED total_redacted

\* redactify.py lines 398-399 / app.py lines 148-153: the failure is reported
\* for this document and the loop goes on with the next one
DocError ==
    /\ processed_files' = Append(processed_files, ErrorEntry(file_idx + 1))
    /\ file_idx' = file_idx + 1
    /\ pc' = "loop"
    /\ n_pages' = 0
    /\ page_num' = 0
    /\ page' = NoPage
    /\ commits' = <<>>
    /\ redacted_count' = 0
    /\ UNCHANGED total_redacted

\* fitz.open: the next document of the batch is opened, or cannot be read
OpenDoc ==
    /\ pc = "loop"
    /\ file_idx < pdf_files
    /\ \E readable \in BOOLEAN, n \in 1..MaxPages :
         IF readable
         THEN /\ pc' = "pages"
              /\ n_pages' = n
              /\ page_num' = 0
              /\ page' = NoPage
              /\ commits' = <<>>
              /\ redacted_count' = 0
              /\ UNCHANGED batch
         ELSE DocError
    /\ UNCHANGED <<sessions, inputs, redactor, fvars>>

\* redact_pdf lines 266-290 / process_pdf_in_memory lines 184-224: one page
ProcessPage ==
    /\ pc = "pages"
    /\ ~image
    /\ page_num < n_pages
    /\ \E text \in corpus, lib \in Libs,
          outcome \in (IF WillCall THEN Outcomes ELSE {NoOutcome}) :
         \E d \in {PageDetect(get_text(NewLayer(text)), outcome)} :
           \E run \in {RedactPage(NewLayer(text), d.addresses, lib)} :
             IF d.raised \/ run.raised
             THEN DocError
             ELSE /\ page' = PageRecord(page_num, text, outcome, lib, d, run)
                  /\ redacted_count' = redacted_count + run.count
                  /\ page_num' = page_num + 1
                  /\ commits' = commits \o [k \in 1..Applies(run.log) |-> page_num]
                  /\ UNCHANGED <<pc, n_pages, batch>>
    /\ UNCHANGED <<sessions, inputs, redactor, fvars>>

\* redact_to_image lines 213-244: the first page only
ImagePage ==
    /\ pc = "pages"
    /\ image
    /\ page_num = 0
    /\ \E text \in corpus, lib \in Libs,
          outcome \in (IF WillCall THEN Outcomes ELSE {NoOutcome}) :
         \E d \in {PageDetect(get_text(NewLayer(text)), outcome)} :
           \E run \in {RasterPage(NewLayer(text), d.addresses, lib)} :
             IF d.raised \/ run.raised
             THEN DocError
             ELSE /\ page' = PageRecord(0, text, outcome, lib, d, run)
                  /\ redacted_count' = redacted_count + run.count
                  /\ page_num' = 1
                  /\ UNCHANGED <<pc, n_pages, commits, batch>>
    /\ UNCHANGED <<sessions, inputs, redactor, fvars>>

\* a call into the PDF library raises while a page is being processed
\* (get_text, get_pixmap, search_for, add_redact_annot, apply_redactions)
PageFault ==
    /\ pc = "pages"
    /\ IF image THEN page_num = 0 ELSE page_num < n_pages
    /\ DocError
    /\ UNCHANGED <<sessions, inputs, redactor, fvars>>

\* doc.save / img.save / doc.tobytes and the report of the document
SaveDoc ==
    /\ pc = "pages"
    /\ IF image THEN page_num = 1 ELSE page_num = n_pages
    /\ \E written \in BOOLEAN :
         IF written
         THEN /\ processed_files' =
                    Append(processed_files, DoneEntry(file_idx + 1, redacted_count))
              /\ total_redacted' = total_redacted + redacted_count
              /\ file_idx' = file_idx + 1
              /\ pc' = "loop"
              /\ n_pages' = 0
              /\ page_num' = 0
              /\ page' = NoPage
              /\ commits' = <<>>
              /\ redacted_count' = 0
         ELSE DocError
    /\ UNCHANGED <<sessions, inputs, redactor, fvars>>

\* memory_store[session_id] = value
Put(store, session_id, value) ==
    [s \in DOMAIN store \cup {session_id} |-> IF s = session_id THEN value ELSE store[s]]

\* del memory_store[session_id]
Del(store, session_id) == [s \in DOMAIN store \ {session_id} |-> store[s]]

\* app.py lines 157-162: what an upload stores for its session
SessionEntry(files, total) == [processed_files |-> files, total_redacted |-> total]

\* the ids the requests in flight name or were given
NamedIds(reqs) == {reqs[r].session_id : r \in DOMAIN reqs}

\* line 155, uuid.uuid4(): an id no session has and no request names
FreshId(store, reqs) ==
    CHOOSE i \in 1..(Cardinality(DOMAIN store \cup NamedIds(reqs)) + 1) :
        /\ i \notin DOMAIN store \cup NamedIds(reqs)
        /\ \A j \in 1..(i - 1) : j \in DOMAIN store \cup NamedIds(reqs)

\* the end of the batch: the summary line, or (upload, lines 155-170) the
\* archive stored under a new session id and the upload's response
Finish ==
    /\ pc = "loop"
    /\ file_idx = pdf_files
    /\ pc' = "done"
    /\ memory_store' = IF mode = "web"
                       THEN Put(memory_store, FreshId(memory_store, requests),
                                SessionEntry(processed_files, total_redacted))
                       ELSE memory_store
    /\ UNCHANGED <<requests, inputs, redactor, docvars, batch, fvars>>

Next ==
    \/ Construct
    \/ UploadValidate
    \/ OpenDoc
    \/ ProcessPage
    \/ ImagePage
    \/ PageFault
    \/ SaveDoc
    \/ Finish

Spec == Init /\ [][Next]_vars

\* ------------------------------------------------------------------------
\* Batch runs: several documents, fewer page texts
\* ------------------------------------------------------------------------

BatchConfigs ==
    { Config(TRUE, TRUE, "ok", NoAi, Absent, FALSE, NoFields,
             Fields(List(<<P>>), List(<<PDot>>), Absent, Absent, Absent)),
      Config(TRUE, TRUE, "absent", NoAi, Absent, FALSE, NoFields,
             Fields(Absent, Absent, Absent, Absent, List(<<<<"\\">>>>))) }

InitBatch ==
    /\ \/ /\ mode = "cli"
          /\ image \in BOOLEAN
          /\ config \in BatchConfigs
          /\ form = <<>>
       \/ /\ mode = "web"
          /\ image = FALSE
          /\ config \in {Config(FALSE, TRUE, "absent", NoAi, Absent, FALSE, NoFields, NoFields)}
          /\ form \in {<< <<" ", "p">> >>}
    /\ environ = NoEnv
    /\ pdf_files \in 0..MaxDocs
    /\ corpus = BatchTexts
    /\ pc = "start"
    /\ RedactorIdle
    /\ DocIdle
    /\ BatchIdle
    /\ SessionsIdle
    /\ fin = None
    /\ fout = None

SpecBatch == InitBatch /\ [][Next]_vars

\* ------------------------------------------------------------------------
\* Functions checked on their own
\* ------------------------------------------------------------------------

MaxLen == 3
MaxFuzzy == 2

Chars == {"p", "q", "."}
Texts == UNION {[1..k -> Chars] : k \in 0..MaxLen}

\* the pipeline at rest
PipelineIdle ==
    /\ mode = "none"
    /\ image = FALSE
    /\ config = Config(FALSE, TRUE, "absent", NoAi, Absent, FALSE, NoFields, NoFields)
    /\ environ = NoEnv
    /\ form = <<>>
    /\ pdf_files = 0
    /\ corpus = {}
    /\ pc = "idle"
    /\ RedactorIdle
    /\ DocIdle
    /\ BatchIdle
    /\ SessionsIdle

\* detect_addresses on any text, fuzzy result and pattern list
FuzzyMatches ==
    { Match(Str(P), Num(0), Num(1)), Match(Str(P), Num(7), Num(8)),
      Match(Str(PQ), Num(0), Num(2)) }
FuzzyLists == UNION {[1..k -> FuzzyMatches] : k \in 0..MaxFuzzy}

PatternLists ==
    { <<>>, <<P>>, <<P, P>>, <<PQ, P>>, <<P, PQ>>, <<<<".">>>>, <<PDot, <<"q">>>>,
      <<<<"\\", ".">>, P>>, <<<<"q", "\\">>>>, <<<<>>, P>> }

InitDetect ==
    /\ PipelineIdle
    /\ fin \in [k : {"detect"}, web : BOOLEAN, text : Texts,
                ai_addresses : FuzzyLists, pattern_list : PatternLists]
    /\ fout = None

Detect ==
    /\ fin.k = "detect"
    /\ fout = None
    /\ fout' = [k |-> "detect",
                r |-> detect_addresses(fin.text, fin.ai_addresses,
                                       IF fin.web THEN EscapeAll(fin.pattern_list)
                                       ELSE fin.pattern_list)]
    /\ UNCHANGED <<sessions, inputs, pc, redactor, docvars, batch, fin>>

SpecDetect == InitDetect /\ [][Detect]_vars

\* PDFRedactor(config) on any configuration file
FieldValues == {Absent, Bad, List(<<PDot>>)}
FieldSets ==
    [postal_codes : FieldValues, prefectures : {Absent, List(<<P>>)},
     cities : FieldValues, addresses : {Absent, List(<<PQ, P>>)},
     custom_patterns : FieldValues]

InitConfig ==
    /\ PipelineIdle
    /\ fin \in [k : {"config"},
                environ : CliEnvirons,
                config : [exists : BOOLEAN, parse_ok : BOOLEAN, folders : {"absent", "bad"},
                          ai_api : {NoAi, AiApi("bad", FALSE, FALSE, "unset"),
                                    AiApi("ok", TRUE, FALSE, "anthropic")},
                          target_patterns : {Absent, List(<<>>), List(<<PQ>>)},
                          legacy_patterns : [present : BOOLEAN, fields : FieldSets],
                          root : {NoFields, Fields(List(<<P>>), Absent, Absent, Absent, Absent)}]]
    /\ fout = None

LoadConfig ==
    /\ fin.k = "config"
    /\ fout = None
    /\ fout' = [k |-> "config", r |-> PDFRedactor(fin.config, fin.environ)]
    /\ UNCHANGED <<sessions, inputs, pc, redactor, docvars, batch, fin>>

SpecConfig == InitConfig /\ [][LoadConfig]_vars

\* the same one-page document processed again and again by one configured
\* pipeline: each run asks the backend anew
MaxRuns == 2

InitTwice ==
    /\ \/ /\ mode = "cli"
          /\ image \in BOOLEAN
          /\ config \in CliConfigs
          /\ environ \in CliEnvirons
          /\ form = <<>>
       \/ /\ mode = "web"
          /\ image = FALSE
          /\ config \in WebConfigs
          /\ environ \in WebEnvirons
          /\ form \in Forms
    /\ pdf_files = 1
    /\ corpus = PageTexts
    /\ pc = "start"
    /\ RedactorIdle
    /\ DocIdle
    /\ BatchIdle
    /\ SessionsIdle
    /\ fin \in [k : {"twice"}, text : PageTexts, lib : Libs]
    /\ fout = [k |-> "twice", runs |-> <<>>]

\* what one run of redact_pdf / redact_to_image / process_pdf_in_memory on
\* the document gives: whether it raised, the count returned, the regions
\* marked or painted, and what the backend answered
RunResult(d, run, outcome) ==
    [raised |-> d.raised \/ run.raised,
     count |-> run.count,
     regions |-> {run.annots[k] : k \in 1..Len(run.annots)},
     ai_calls |-> d.ai_calls,
     outcome |-> outcome]

RunAgain ==
    /\ pc = "loop"
    /\ fin.k = "twice"
    /\ Len(fout.runs) < MaxRuns
    /\ \E outcome \in (IF WillCall THEN Outcomes ELSE {NoOutcome}) :
         \E d \in {PageDetect(get_text(NewLayer(fin.text)), outcome)} :
           \E run \in {IF image THEN RasterPage(NewLayer(fin.text), d.addresses, fin.lib)
                       ELSE RedactPage(NewLayer(fin.text), d.addresses, fin.lib)} :
             fout' = [fout EXCEPT !.runs = Append(@, RunResult(d, run, outcome))]
    /\ UNCHANGED <<sessions, inputs, pc, redactor, docvars, batch, fin>>

NextTwice ==
    \/ Construct
    \/ UploadValidate
    \/ RunAgain

SpecTwice == InitTwice /\ [][NextTwice]_vars

\* find_similar_patterns on any response: commentary, bracketed commentary,
\* a stray bracket, and arrays of entries, in any order
MaxChunks == 3

Chunks ==
    { <<W>>, <<LB, W, RB>>, <<RB>>, <<LB, RB>>,
      <<LB>> \o Entry(P, 0, 1) \o <<RB>>,
      <<LB>> \o Entry(PQ, 0, 2) \o <<CM>> \o Entry(P, 2, 3) \o <<RB>> }

Responses == {Concat(cs) : cs \in UNION {[1..k -> Chunks] : k \in 0..MaxChunks}}

InitParse ==
    /\ PipelineIdle
    /\ fin \in [k : {"parse"}, outcome : {Failure} \cup {Answer(toks) : toks \in Responses}]
    /\ fout = None

Parse ==
    /\ fin.k = "parse"
    /\ fout = None
    /\ fout' = [k |-> "parse", r |-> find_similar_patterns(TRUE, <<P>>, fin.outcome)]
    /\ UNCHANGED <<sessions, inputs, pc, redactor, docvars, batch, fin>>

SpecParse == InitParse /\ [][Parse]_vars

\* ------------------------------------------------------------------------
\* The session map under concurrent requests (app.py: upload_files'
\* store, download_zip, cleanup), each request on a thread of its own.  A
\* thread may be preempted between any two accesses of memory_store.
\* ------------------------------------------------------------------------

MaxRequests == 3
MaxSessions == 2

\* the sessions earlier uploads may have left in the map
SessionIds == 1..MaxSessions

\* a request that carries no session id
EmptyId == 0

\* the archive stored for a session, told apart by a tag
Archive(tag) == SessionEntry(<<DoneEntry(1, tag)>>, tag)

Stored(ids) == [s \in ids |-> Archive(s)]

Request(op, session_id) ==
    [op |-> op, session_id |-> session_id, pc |-> "start", status |-> 0, data |-> None]

RequestKinds ==
    {Request("upload", EmptyId)}
    \cup {Request(op, s) : op \in {"download", "cleanup"}, s \in {EmptyId} \cup SessionIds}

InitSessions ==
    /\ mode = "web"
    /\ image = FALSE
    /\ config = Config(FALSE, TRUE, "absent", NoAi, Absent, FALSE, NoFields, NoFields)
    /\ environ = NoEnv
    /\ form = <<>>
    /\ pdf_files = 0
    /\ corpus = {}
    /\ pc = "serving"
    /\ RedactorIdle
    /\ DocIdle
    /\ BatchIdle
    /\ \E ids \in SUBSET SessionIds :
          /\ memory_store = Stored(ids)
          /\ fin = [k |-> "sessions", stored |-> ids]
    /\ fout = None
    /\ requests \in [1..MaxRequests -> RequestKinds]

\* the response of request r
Respond(r, status, data) ==
    requests' = [requests EXCEPT ![r] = [@ EXCEPT !.pc = "done", !.status = status,
                                                  !.data = data]]

\* upload_files lines 155-170: the archive is stored under a new id
UploadStore(r) ==
    /\ requests[r].op = "upload"
    /\ requests[r].pc = "start"
    /\ LET session_id == FreshId(memory_store, requests)
       IN  /\ memory_store' = Put(memory_store, session_id, Archive(MaxSessions + r))
           /\ requests' = [requests EXCEPT ![r] = [@ EXCEPT !.pc = "done", !.status = 200,
                                                            !.session_id = session_id]]
    /\ UNCHANGED <<inputs, pc, redactor, docvars, batch, fvars>>

\* download_zip lines 236-242: no id is 400, an id not in the map is 404
DownloadCheck(r) ==
    /\ requests[r].op = "download"
    /\ requests[r].pc = "start"
    /\ IF requests[r].session_id = EmptyId THEN Respond(r, 400, None)
       ELSE IF requests[r].session_id \notin DOMAIN memory_store THEN Respond(r, 404, None)
       ELSE requests' = [requests EXCEPT ![r].pc = "read"]
    /\ UNCHANGED <<memory_store, inputs, pc, redactor, docvars, batch, fvars>>

\* download_zip lines 244-255: memory_store[session_id]; a KeyError is
\* answered 500 by the handler's except
DownloadRead(r) ==
    /\ requests[r].op = "download"
    /\ requests[r].pc = "read"
    /\ IF requests[r].session_id \in DOMAIN memory_store
       THEN Respond(r, 200, memory_store[requests[r].session_id])
       ELSE Respond(r, 500, None)
    /\ UNCHANGED <<memory_store, inputs, pc, redactor, docvars, batch, fvars>>

\* cleanup lines 260-267: no id is 400; an id not in the map is success
CleanupCheck(r) ==
    /\ requests[r].op = "cleanup"
    /\ requests[r].pc = "start"
    /\ IF requests[r].session_id = EmptyId THEN Respond(r, 400, None)
       ELSE IF requests[r].session_id \notin DOMAIN memory_store THEN Respond(r, 200, None)
       ELSE requests' = [requests EXCEPT ![r].pc = "del"]
    /\ UNCHANGED <<memory_store, inputs, pc, redactor, docvars, batch, fvars>>

\* cleanup lines 268-273: del memory_store[session_id]; a KeyError is
\* answered 500 by the handler's except
CleanupDel(r) ==
    /\ requests[r].op = "cleanup"
    /\ requests[r].pc = "del"
    /\ IF requests[r].session_id \in DOMAIN memory_store
       THEN /\ memory_store' = Del(memory_store, requests[r].session_id)
            /\ Respond(r, 200, None)
       ELSE /\ Respond(r, 500, None)
            /\ UNCHANGED memory_store
    /\ UNCHANGED <<inputs, pc, redactor, docvars, batch, fvars>>

NextSessions ==
    \/ \E r \in DOMAIN requests : UploadStore(r)
    \/ \E r \in DOMAIN requests : DownloadCheck(r)
    \/ \E r \in DOMAIN requests : DownloadRead(r)
    \/ \E r \in DOMAIN requests : CleanupCheck(r)
    \/ \E r \in DOMAIN requests : CleanupDel(r)

SpecSessions == InitSessions /\ [][NextSessions]_vars


\* ------------------------------------------------------------------------
\* Claims
\* ------------------------------------------------------------------------

\* C1: the reconciled match list of a page holds no two entries with the
\* same text, whatever the fuzzy and the regex detector reported (a fuzzy
\* result that lists a text twice included).
C1_NoDuplicateTexts ==
    \A i, j \in 1..Len(page.addresses) :
        i # j => ~PyEq(page.addresses[i].text, page.addresses[j].text)

\* the regex detector's raw matches: pattern order, then match order
RECURSIVE RawMatches(_, _)
RawMatches(pattern_list, text) ==
    IF pattern_list = <<>> THEN <<>>
    ELSE finditer(re_compile(Head(pattern_list)).toks, text)
         \o RawMatches(Tail(pattern_list), text)

DetectPatterns == IF fin.web THEN EscapeAll(fin.pattern_list) ELSE fin.pattern_list

\* the raw regex matches that survive: the first of each text, unless the
\* fuzzy detector reported that text
KeptRaw(raw, fuzzy) ==
    {j \in 1..Len(raw) :
        /\ ~HasText(fuzzy, raw[j].text)
        /\ \A i \in 1..(j - 1) : ~PyEq(raw[i].text, raw[j].text)}

\* C2: the reconciled list is the fuzzy matches in the order returned, then
\* the regex matches in pattern order and match order, of which only the
\* first of each text is kept and none whose text a fuzzy match has: a text
\* both detectors report is kept once, as the fuzzy entry.
C2_ReconcileOrder ==
    (fout.k = "detect" /\ ~fout.r.raised) =>
        LET out == fout.r.val
            fuzzy == fin.ai_addresses
            raw == RawMatches(DetectPatterns, fin.text)
            keep == KeptRaw(raw, fuzzy)
            Nth(k) == CHOOSE j \in keep : Cardinality({i \in keep : i < j}) = k - 1
        IN  /\ Len(out) = Len(fuzzy) + Cardinality(keep)
            /\ \A i \in 1..Len(fuzzy) : out[i] = fuzzy[i]
            /\ \A k \in 1..Cardinality(keep) : out[Len(fuzzy) + k] = raw[Nth(k)]

\* C2 witness: both detectors report one text at different offsets, and
\* the regex detector also contributes an entry of its own
C2_Witness ==
    /\ fout.k = "detect"
    /\ ~fout.r.raised
    /\ LET raw == RawMatches(DetectPatterns, fin.text)
       IN  /\ \E i \in 1..Len(fin.ai_addresses), j \in 1..Len(raw) :
                 /\ PyEq(fin.ai_addresses[i].text, raw[j].text)
                 /\ ~PyEq(fin.ai_addresses[i].start, raw[j].start)
           /\ KeptRaw(raw, fin.ai_addresses) # {}
           /\ Len(fout.r.val) > Len(fin.ai_addresses)


\* the configuration file is there and is read as far as its pattern fields
PatternsReached(cfg) ==
    cfg.exists /\ cfg.parse_ok /\ cfg.folders # "bad" /\ cfg.ai_api.k # "bad"

\* the section the legacy fields are read from
LegacySection(cfg) ==
    IF cfg.legacy_patterns.present THEN cfg.legacy_patterns.fields ELSE cfg.root

\* the five legacy fields, in reading order
LegacyFields(cfg) ==
    StructuredFields(LegacySection(cfg)) \o <<LegacySection(cfg).custom_patterns>>

\* the file gives target patterns
ResolvesTargets(cfg) ==
    PatternsReached(cfg) /\ cfg.target_patterns.k = "list" /\ cfg.target_patterns.v # <<>>

\* the file gives legacy patterns: no field is malformed and one holds a value
ResolvesLegacy(cfg) ==
    /\ PatternsReached(cfg)
    /\ \A k \in 1..5 : LegacyFields(cfg)[k].k # "bad"
    /\ \E k \in 1..5 : LegacyFields(cfg)[k].k = "list" /\ LegacyFields(cfg)[k].v # <<>>

NothingResolved == ~ResolvesTargets(config) /\ ~ResolvesLegacy(config)

\* C3: the run ends with a configuration error exactly when neither a target
\* pattern nor a legacy pattern is resolved (web: when the form holds no
\* pattern line or no document is uploaded); it then ends before any document
\* is opened, and every run that goes on to the documents has a pattern.
C3_ConfigErrorBeforeDocuments ==
    /\ (mode = "cli" /\ pc # "start") => ((pc = "config_error") <=> NothingResolved)
    /\ (mode = "web" /\ pc # "start") =>
          ((pc = "rejected") <=> (NonBlankLines(form) = <<>> \/ pdf_files = 0))
    /\ pc \in {"config_error", "rejected"} =>
          /\ file_idx = 0
          /\ processed_files = <<>>
          /\ n_pages = 0
          /\ page = NoPage
    /\ pc \in {"loop", "pages", "done", "no_files"} =>
          IF mode = "web" THEN patterns # <<>>
          ELSE target_patterns # <<>> \/ address_patterns # <<>>

\* C3 witness: the configuration file is there and parses, and still resolves
\* no pattern; the run has ended while documents wait
C3_Witness ==
    /\ pc = "config_error"
    /\ config.exists
    /\ config.parse_ok
    /\ pdf_files > 0

\* the pages 0..n-1, in order
InOrder(n) == [k \in 1..n |-> k - 1]

\* a vector page's run commits once, and the commit is its last call
C4_PageCommit ==
    (~image /\ page.num >= 0) =>
        /\ Applies(page.run.log) = 1
        /\ page.run.log[Len(page.run.log)] = "apply_redactions"

\* a document is reported as written only after each of its pages committed
C4_SaveStep ==
    (~image /\ Len(processed_files') > Len(processed_files)
            /\ processed_files'[Len(processed_files')].ok)
        => commits = InOrder(n_pages)

\* C4: on a vector page every match is located and marked before the page's
\* single commit, pages commit one by one in page order, and the document is
\* saved only after all of its pages have committed.
C4_CommitAfterCollect ==
    /\ [](C4_PageCommit /\ (~image => commits = InOrder(page_num)))
    /\ [][C4_SaveStep]_vars

\* C4 witness: the second page of a document committed after two searches
\* that marked at least two regions
C4_Witness ==
    /\ ~image
    /\ page.num = 1
    /\ Len(page.addresses) >= 2
    /\ Len(page.run.annots) >= 2
    /\ commits = <<0, 1>>


\* a match whose text is one of the run's literal (escaped) patterns
LiteralText(addr) ==
    /\ addr.text.t = "str"
    /\ addr.text.v # <<>>
    /\ \E k \in 1..Len(RegexPatterns) : RegexPatterns[k] = re_escape(addr.text.v)

\* C5: once a vector page has committed, the text of a match that comes
\* from a literal pattern is found nowhere in the page's text layer, by the
\* same search that located it (overlapping occurrences included).
C5_LiteralTextGone ==
    (~image /\ page.num >= 0) =>
        \A i \in 1..Len(page.addresses) :
            LiteralText(page.addresses[i]) =>
                search_for(page.run.layer, page.addresses[i].text.v, TRUE) = <<>>

\* C5 witness: two literal matches on a committed page, one inside the
\* other, one of them on the page more than once
C5_Witness ==
    /\ ~image
    /\ page.num >= 0
    /\ \E i, j \in 1..Len(page.addresses) :
          /\ i # j
          /\ LiteralText(page.addresses[i])
          /\ LiteralText(page.addresses[j])
          /\ Len(page.addresses[i].text.v) > Len(page.addresses[j].text.v)
          /\ Len(search_for(NewLayer(page.text), page.addresses[j].text.v, TRUE)) >= 2
          /\ search_for(NewLayer(page.text), page.addresses[i].text.v, TRUE) # <<>>

\* how many rectangles the searches of a page's matches report
RECURSIVE SumLocated(_, _, _)
SumLocated(addresses, layer, overlapping) ==
    IF addresses = <<>> THEN 0
    ELSE Len(search_for(layer, Head(addresses).text.v, overlapping))
         + SumLocated(Tail(addresses), layer, overlapping)

\* a page's count is the number of its marks (or painted boxes), one per
\* located rectangle of each match
C6_PageCount ==
    page.num >= 0 =>
        /\ page.run.count = Len(page.run.annots)
        /\ page.run.count = SumLocated(page.addresses, NewLayer(page.text),
                                       page.lib.overlapping)

\* the document's count grows by each page's count, and is what is reported
C6_Step ==
    /\ page_num' = page_num + 1 =>
          redacted_count' = redacted_count + Len(page'.run.annots)
    /\ Len(processed_files') > Len(processed_files) =>
          LET e == processed_files'[Len(processed_files')]
          IN  e.count = IF e.ok THEN redacted_count ELSE 0

\* C6: the count a document reports is the number of regions marked (or
\* painted) on its pages: one per located rectangle, so a match located
\* twice counts twice and a match located nowhere counts nothing; a document
\* without a page processed counts 0.
C6_RedactionCount ==
    /\ [](C6_PageCount /\ (page_num = 0 => redacted_count = 0))
    /\ [][C6_Step]_vars

\* C6 witness: a page with a match located nowhere and a match located at
\* least twice
C6_Witness ==
    /\ page.num >= 0
    /\ redacted_count >= 2
    /\ \E i, j \in 1..Len(page.addresses) :
          /\ search_for(NewLayer(page.text), page.addresses[i].text.v,
                        page.lib.overlapping) = <<>>
          /\ Len(search_for(NewLayer(page.text), page.addresses[j].text.v,
                            page.lib.overlapping)) >= 2


\* the run's inputs leave the fuzzy detector disabled: no ai_api section,
\* enabled false, or enabled with no key in the configuration or environment
FuzzyDisabled ==
    IF mode = "web"
    THEN LET a == WebAiConfig(config, environ)
         IN  ~a.enabled \/ ~(a.api_key \/ environ.anthropic_key \/ environ.openai_key)
    ELSE \/ ~(config.exists /\ config.parse_ok /\ config.folders # "bad")
         \/ config.ai_api.k # "ok"
         \/ ~config.ai_api.enabled
         \/ ~(config.ai_api.api_key \/ environ.anthropic_key \/ environ.openai_key)

\* the page's matches and run when the regex detector works alone
RegexOnly(text) == RegexLoop(RegexPatterns, text, <<>>).val

\* C7: with the fuzzy detector disabled (no ai_api section, enabled false,
\* or enabled without a resolvable key) the backend is called for no page,
\* and each page's matches, regions and count are those the regex detector
\* alone gives.
C7_DisabledNeverCalls ==
    FuzzyDisabled =>
        /\ ~ai_matcher.ai_enabled
        /\ page.num >= 0 =>
              /\ page.ai_calls = 0
              /\ page.ai_addresses = <<>>
              /\ page.addresses = RegexOnly(page.text)
              /\ page.run = IF image
                            THEN RasterPage(NewLayer(page.text), RegexOnly(page.text), page.lib)
                            ELSE RedactPage(NewLayer(page.text), RegexOnly(page.text), page.lib)

\* C7 witness: the configuration enables the detector but no key is found,
\* and a page with regions has been processed
C7_Witness ==
    /\ FuzzyDisabled
    /\ IF mode = "web" THEN WebAiConfig(config, environ).enabled ELSE config.ai_api.enabled
    /\ FuzzyTargets # <<>>
    /\ page.num >= 0
    /\ page.run.count > 0

\* the counts of the documents that succeeded
RECURSIVE SumOk(_)
SumOk(entries) ==
    IF entries = <<>> THEN 0
    ELSE (IF Head(entries).ok THEN Head(entries).count ELSE 0) + SumOk(Tail(entries))

\* C8: the batch holds one entry per document started, in input order; a
\* failing document leaves an error entry and the loop goes on, so that the
\* finished batch holds an entry for every input document, and the total is
\* the sum of the counts of the documents that succeeded.
C8_BatchIsolation ==
    /\ Len(processed_files) = file_idx
    /\ file_idx <= pdf_files
    /\ \A i \in 1..Len(processed_files) :
          /\ processed_files[i].original = i
          /\ ~processed_files[i].ok => processed_files[i].count = 0
    /\ total_redacted = SumOk(processed_files)
    /\ pc = "done" => Len(processed_files) = pdf_files
    /\ pc \in {"start", "config_error", "rejected", "server_error", "no_files",
               "loop", "pages", "done", "idle"}
    /\ pc \in {"config_error", "rejected", "server_error", "no_files"} => file_idx = 0

\* C8 witness: a finished batch in which a document failed and a later one
\* was redacted
C8_Witness ==
    /\ pc = "done"
    /\ \E i, j \in 1..Len(processed_files) :
          /\ i < j
          /\ ~processed_files[i].ok
          /\ processed_files[j].ok
          /\ processed_files[j].count > 0


\* an entry of the shape [text, start, end]
ShapeOk(e) ==
    /\ e.t = "arr"
    /\ Len(e.v) = 3
    /\ e.v[1].t = "str"
    /\ e.v[2].t = "num"
    /\ e.v[3].t = "num"

\* the backend answered with text that holds an array of such entries
WellFormed(outcome) ==
    /\ outcome.kind = "text"
    /\ LET start_idx == find_lb(outcome.toks)
           end_idx == rfind_rb(outcome.toks) + 1
       IN  /\ start_idx # -1
           /\ end_idx > start_idx
           /\ LET parsed == json_loads(SubSeq(outcome.toks, start_idx + 1, end_idx))
              IN  /\ parsed.ok
                  /\ parsed.val.t = "arr"
                  /\ \A k \in 1..Len(parsed.val.v) : ShapeOk(parsed.val.v[k])

\* C9: the backend is called at most once for a page, and an outcome that is
\* no array of [text, start, end] entries (an exception, no array, an array
\* that does not parse, entries of another shape) gives the page no fuzzy
\* match.
C9_FailureYieldsNoFuzzyMatch ==
    page.num >= 0 =>
        /\ page.ai_calls <= 1
        /\ (page.ai_calls = 1 /\ ~WellFormed(page.outcome)) => page.ai_addresses = <<>>

\* the legacy patterns read before the first malformed field
RECURSIVE ResolvedBefore(_, _)
ResolvedBefore(fields, k) ==
    IF k > Len(fields) \/ fields[k].k = "bad" THEN <<>>
    ELSE (IF fields[k].k = "absent" THEN <<>>
          ELSE IF k = Len(fields) THEN fields[k].v ELSE EscapeAll(fields[k].v))
         \o ResolvedBefore(fields, k + 1)

\* C10: a configuration that fails part-way keeps every pattern resolved
\* before the failure, target and legacy patterns alike, and the constructor
\* raises only when nothing at all was resolved.
C10_KeepsWhatWasResolved ==
    (fout.k = "config" /\ PatternsReached(fin.config)) =>
        LET kept == ResolvedBefore(LegacyFields(fin.config), 1)
            self == fout.r.self
        IN  /\ fin.config.target_patterns.k = "list" =>
                  self.target_patterns = fin.config.target_patterns.v
            /\ Len(self.address_patterns) >= Len(kept)
            /\ SubSeq(self.address_patterns, 1, Len(kept)) = kept
            /\ fout.r.raised <=> (self.target_patterns = <<>> /\ kept = <<>>)


Values(field) == IF field.k = "list" THEN field.v ELSE <<>>

\* each value of a list, escaped
Escaped(vs) == [k \in 1..Len(vs) |-> re_escape(vs[k])]

\* the structured values of the configuration, in reading order
StructuredValues(cfg) ==
    Values(LegacySection(cfg).postal_codes) \o Values(LegacySection(cfg).prefectures)
    \o Values(LegacySection(cfg).cities) \o Values(LegacySection(cfg).addresses)

\* the pattern that matches exactly the characters of v, one by one
Verbatim(v) == [ok |-> TRUE, toks |-> [k \in 1..Len(v) |-> [any |-> FALSE, c |-> v[k]]]]

\* no field of the configuration is malformed
FieldsWellFormed(cfg) ==
    PatternsReached(cfg) /\ \A k \in 1..5 : LegacyFields(cfg)[k].k # "bad"

\* C12: the regex detector's pattern list is the escaped values of
\* postal_codes, prefectures, cities and addresses, in that order and in
\* configuration order, then the custom_patterns as given; each structured
\* entry compiles to a pattern that matches its value verbatim; the list does
\* not depend on target_patterns, which are kept apart for the fuzzy detector.
C12_PatternSourceResult ==
    (fout.k = "config" /\ FieldsWellFormed(fin.config)) =>
        LET structured == StructuredValues(fin.config)
            self == fout.r.self
        IN  /\ self.address_patterns =
                  Escaped(structured) \o Values(LegacySection(fin.config).custom_patterns)
            /\ \A k \in 1..Len(structured) :
                  re_compile(self.address_patterns[k]) = Verbatim(structured[k])
            /\ self.target_patterns = Values(fin.config.target_patterns)

\* C12 witness: a configuration with target patterns, three structured
\* fields (one with two values, one with a "." in its value) and a custom
\* pattern
C12_Witness ==
    /\ fout.k = "config"
    /\ FieldsWellFormed(fin.config)
    /\ fin.config.target_patterns.v # <<>>
    /\ LegacySection(fin.config).postal_codes.k = "list"
    /\ LegacySection(fin.config).prefectures.k = "list"
    /\ LegacySection(fin.config).addresses.k = "list"
    /\ LegacySection(fin.config).custom_patterns.k = "list"
    /\ Len(fout.r.self.address_patterns) = 5
    /\ fout.r.self.address_patterns[1] # fout.r.self.address_patterns[5]


\* where the arrays of a response start: a "[" from which a whole array parses
ArrayStarts(toks) ==
    {i \in 1..Len(toks) : toks[i].k = "[" /\ ParseValue(toks, i).ok}

\* the first array of a response
FirstArray(toks) ==
    ParseValue(toks, CHOOSE i \in ArrayStarts(toks) : \A j \in ArrayStarts(toks) : i <= j).val

\* the [text, start, end] entries of an array, in order
RECURSIVE EntriesOf(_)
EntriesOf(elems) ==
    IF elems = <<>> THEN <<>>
    ELSE (IF ShapeOk(Head(elems))
          THEN <<Match(Head(elems).v[1], Head(elems).v[2], Head(elems).v[3])>>
          ELSE <<>>)
         \o EntriesOf(Tail(elems))

\* C13: find_similar_patterns returns the entries of the first well-formed
\* array of the response, whatever commentary (brackets and further arrays
\* included) surrounds it, and nothing only when the response holds no array.
C13_FirstWellFormedArray ==
    (fout.k = "parse" /\ fin.outcome.kind = "text") =>
        fout.r = IF ArrayStarts(fin.outcome.toks) = {} THEN <<>>
                 ELSE EntriesOf(FirstArray(fin.outcome.toks).v)


\* the ids some cleanup request names
CleanedIds == {requests[r].session_id : r \in {q \in DOMAIN requests : requests[q].op = "cleanup"}}

\* C14: under any interleaving, a download with a session id ends with the
\* stored archive (200) or not-found (404), a cleanup with a session id ends
\* with success and the id gone from the map, no request ends with an
\* internal error (500), and the entries no cleanup names stay as stored.
C14_NoInternalError ==
    fin.k = "sessions" =>
        /\ \A r \in DOMAIN requests :
              (requests[r].pc = "done" /\ requests[r].session_id # EmptyId) =>
                  /\ requests[r].status # 500
                  /\ requests[r].op = "download" =>
                        /\ requests[r].status \in {200, 404}
                        /\ requests[r].status = 200 =>
                              requests[r].data = Archive(requests[r].session_id)
                  /\ requests[r].op = "cleanup" =>
                        /\ requests[r].status = 200
                        /\ requests[r].session_id \notin DOMAIN memory_store
        /\ \A s \in fin.stored \ CleanedIds :
              s \in DOMAIN memory_store /\ memory_store[s] = Archive(s)

====
